---- MODULE Spec2Model ----
(***************************************************************************)
(* Model of the BERT-style encoder assembly of fenwicks:                   *)
(*   src/nlp/models.py  transformer, word_emb, token_type_pos_emb,         *)
(*                      create_attention_mask, BertConfig, BertModel       *)
(*   src/nlp/text.py    clean_ascii                                        *)
(* Integer tensors are modelled by their shape and their row-major data.   *)
(* Floating-point activations are modelled by their shape and by the       *)
(* layers they went through.  Dropout probabilities are in tenths,         *)
(* initializer_range in hundredths.  `layers` is src/layers.py: a name it   *)
(* does not define raises AttributeError where models.py looks it up.      *)
(***************************************************************************)
EXTENDS Integers, Sequences, FiniteSets, TLC

\* ------------------------------------------------------------ bounds
MaxSeq == 2
MaxPos == 2
MaxHidden == 3
MaxHeads == 2
MaxLayers == 2
MaxStrLen == 3

BatchSizes == {1, 2}
TokenIds == {0, 1}
TypeIds == {0, 1}
MaskFlags == {0, 1}
DropoutProbs == {1, 2}
VocabSizes == {2}
TypeVocabSizes == {2, 16}
IntermediateSizes == {3, 8}
InitializerRanges == {2}
CodePoints == {65, 127, 128, 233, 254, 255, 8364}

\* ------------------------------------------------------------ tensors
\* A dense tensor: its shape, its entries in row-major order, its dtype.
Prod(shape) ==
  LET RECURSIVE P(_)
      P(k) == IF k = 0 THEN 1 ELSE shape[k] * P(k - 1)
  IN  P(Len(shape))

Tensor(shape, flat, dtype) == [shape |-> shape, flat |-> flat, dtype |-> dtype]

\* Every integer tensor of a shape over a set of values.
TensorsOf(shape, values) ==
  {Tensor(shape, f, "int32") : f \in [1..Prod(shape) -> values]}

\* Entry (b, i, j), 0-based, of a rank-3 tensor.
At3(t, b, i, j) == t.flat[1 + (b * t.shape[2] + i) * t.shape[3] + j]

\* Entry (b, j), 0-based, of a rank-2 tensor.
At2(t, b, j) == t.flat[1 + b * t.shape[2] + j]

\* core.get_shape_list: the shape of a tensor as a list of integers.
get_shape_list(t) == t.shape

\* tf.ones / tf.zeros
tf_ones(shape, dtype) == Tensor(shape, [n \in 1..Prod(shape) |-> 1], dtype)
tf_zeros(shape, dtype) == Tensor(shape, [n \in 1..Prod(shape) |-> 0], dtype)

\* tf.reshape: same entries in the same order under a new shape.
tf_reshape(t, shape) == Tensor(shape, t.flat, t.dtype)

\* tf.cast of 0/1 integers: the values are kept, the dtype changes.
tf_cast(t, dtype) == Tensor(t.shape, t.flat, dtype)

\* Elementwise product of two rank-3 tensors with broadcasting: a dimension
\* of size 1 is stretched to the other operand's size.
BroadcastDim(p, q) == IF p = 1 THEN q ELSE p
BroadcastIdx(dim, k) == IF dim = 1 THEN 0 ELSE k
tf_multiply(a, b) ==
  LET d1 == BroadcastDim(a.shape[1], b.shape[1])
      d2 == BroadcastDim(a.shape[2], b.shape[2])
      d3 == BroadcastDim(a.shape[3], b.shape[3])
      entry(n) ==
        LET i == (n - 1) \div (d2 * d3)
            j == ((n - 1) \div d3) % d2
            k == (n - 1) % d3
        IN  At3(a, BroadcastIdx(a.shape[1], i), BroadcastIdx(a.shape[2], j),
                   BroadcastIdx(a.shape[3], k))
          * At3(b, BroadcastIdx(b.shape[1], i), BroadcastIdx(b.shape[2], j),
                   BroadcastIdx(b.shape[3], k))
  IN  Tensor(<<d1, d2, d3>>, [n \in 1..(d1 * d2 * d3) |-> entry(n)], a.dtype)

\* ------------------------------------------------ create_attention_mask
\* A mask builder that stretches the source's own validity instead of the
\* destination's (the transposed broadcast).
create_attention_mask_transposed(src, dest_mask) ==
  LET src_shape == get_shape_list(src)
      desk_shape == get_shape_list(dest_mask)
      bs == src_shape[1]
      src_len == src_shape[2]
      dest_len == desk_shape[2]
      m == tf_cast(tf_reshape(dest_mask, <<bs, dest_len, 1>>), "float32")
  IN  tf_multiply(tf_ones(<<bs, 1, src_len>>, "float32"), m)

create_attention_mask(src, dest_mask) ==
  LET src_shape == get_shape_list(src)
      desk_shape == get_shape_list(dest_mask)
      bs == src_shape[1]
      src_len == src_shape[2]
      dest_len == desk_shape[2]
      m == tf_cast(tf_reshape(dest_mask, <<bs, 1, dest_len>>), "float32")
  IN  tf_multiply(tf_ones(<<bs, src_len, 1>>, "float32"), m)

\* ----------------------------------------------------------- clean_ascii
\* A string is the sequence of its characters' code points.
Strings(maxlen) == UNION {[1..n -> CodePoints] : n \in 0..maxlen}

clean_ascii(x) == SelectSeq(x, LAMBDA c : c < 255)



\* ------------------------------------------------------------ state
VARIABLES
  pc,                 \* position in BertModel.__init__
  heap,               \* config objects by reference
  config,             \* BertModel.__init__'s local `config` (a reference)
  config_at_call,     \* the caller's config as it was when passed in
  is_training,
  input_ids,
  input_mask_arg,     \* the input_mask argument (may be absent)
  token_type_ids_arg, \* the token_type_ids argument (may be absent)
  input_mask,         \* the local input_mask after defaulting
  token_type_ids,     \* the local token_type_ids after defaulting
  batch_size, seq_length,
  embedding_output,   \* self.embedding_output
  attn_mask,          \* the local attn_mask of line 143
  sequence_output,    \* self.sequence_output
  pooled_output,      \* self.pooled_output
  error,
  trace,              \* the stages entered so far, with their dropout
  t_pc, t_x, t_mask, t_args,         \* a call of transformer
  input_shape, attn_c, x_2d, layer_idx, all_layer_outputs,
  t_result, t_error,
  m_pc, m_src, m_dest_mask, m_out,   \* a call of create_attention_mask
  a_pc, a_x, a_out                   \* a call of clean_ascii

bertVars == <<pc, heap, config, config_at_call, is_training, input_ids,
              input_mask_arg, token_type_ids_arg, input_mask, token_type_ids,
              batch_size, seq_length, embedding_output, attn_mask,
              sequence_output, pooled_output, error, trace>>
transVars == <<t_pc, t_x, t_mask, t_args, input_shape, attn_c, x_2d,
               layer_idx, all_layer_outputs, t_result, t_error>>
maskVars == <<m_pc, m_src, m_dest_mask, m_out>>
asciiVars == <<a_pc, a_x, a_out>>
vars == <<bertVars, transVars, maskVars, asciiVars>>

\* The reference by which the caller holds its config.
CallerRef == 1

NoTensor == Tensor(<<>>, <<>>, "int32")
Absent == [some |-> FALSE, val |-> NoTensor]
Given(t) == [some |-> TRUE, val |-> t]
Optional(S) == {Absent} \cup {Given(t) : t \in S}
\* A floating-point activation: its shape and the layers it went through.
Hidden(shape, hist) == [shape |-> shape, hist |-> hist]
NoHidden == Hidden(<<>>, <<>>)
NoEmbedding == [stage |-> "none", shape |-> <<>>, rows |-> <<>>,
                types |-> <<>>, pos |-> <<>>]
Event(phase, idx, hdrop, adrop) ==
  [phase |-> phase, idx |-> idx, hdrop |-> hdrop, adrop |-> adrop]

\* ------------------------------------------------------------ layers
\* The names the module src/layers.py binds (its imports, classes,
\* functions and constants).
LayersNames ==
  {"math", "tf", "np", "core", "Union", "Callable", "Parallel", "Sequential",
   "Scaling", "GlobalPools2D", "DenseBN", "Classifier", "ConvBN", "ConvBlk",
   "ConvResBlk", "init_pytorch", "PYTORCH_PARAMS", "FastAiHead",
   "SelfAttention", "check_model"}

\* layers.<name>: the attribute, or AttributeError when layers.py has none.
layers_getattr(name) == IF name \in LayersNames THEN "none" ELSE "AttributeError"

\* ------------------------------------------------------------ BertConfig
\* lines 98-110: every argument is stored as it is.
BertConfig(vocab, hidden, n_layers, n_heads, inter, hidden_drop, attn_drop, max_pos, type_vocab, init_range) ==
  [vocab_size |-> vocab,
   hidden_size |-> hidden,
   num_hidden_layers |-> n_layers,
   num_attention_heads |-> n_heads,
   intermediate_size |-> inter,
   hidden_dropout_prob |-> hidden_drop,
   attention_probs_dropout_prob |-> attn_drop,
   max_position_embeddings |-> max_pos,
   type_vocab_size |-> type_vocab,
   initializer_range |-> init_range]

\* Every config within the bounds.
Configs ==
  {BertConfig(v, h, l, n, i, hd, ad, mp, tv, ir) :
     v \in VocabSizes, h \in 1..MaxHidden, l \in 0..MaxLayers,
     n \in 1..MaxHeads, i \in IntermediateSizes, hd \in DropoutProbs,
     ad \in DropoutProbs, mp \in 1..MaxPos, tv \in TypeVocabSizes,
     ir \in InitializerRanges}

\* The configs under which every content of the input tensors is tried.
RefConfigs ==
  {BertConfig(2, 2, 1, 2, 8, 1, 2, mp, 2, 2) : mp \in {1, MaxSeq}}

\* A tensor whose last column holds v and whose other entries hold 1 - v.
LastColumn(b, s, v) ==
  Tensor(<<b, s>>, [n \in 1..(b * s) |-> IF n % s = 0 THEN v ELSE 1 - v],
         "int32")

\* ------------------------------------------------------------ deepcopy
\* A "copy" that hands back the same object.
deepcopy_alias(h, ref) == [heap |-> h, ref |-> ref]

\* copy.deepcopy: a fresh object with equal fields.
deepcopy(h, ref) ==
  LET new == Cardinality(DOMAIN h) + 1
  IN  [heap |-> [r \in DOMAIN h \cup {new} |-> IF r = new THEN h[ref] ELSE h[r]],
       ref |-> new]

\* ------------------------------------------------------------ defaults
\* lines 124-125
input_mask_or_default(arg, b, s) ==
  IF ~arg.some THEN tf_ones(<<b, s>>, "int32") ELSE arg.val

\* lines 127-128
token_type_ids_or_default(arg, b, s) ==
  IF ~arg.some THEN tf_zeros(<<b, s>>, "int32") ELSE arg.val

\* ------------------------------------------------------------ word_emb
\* tf.expand_dims(x, axis=[-1])
tf_expand_dims_last(x) == Tensor(Append(x.shape, 1), x.flat, x.dtype)

ButLast(q) == SubSeq(q, 1, Len(q) - 1)

\* lines 52-64: each token id selects its row of the embedding table; the
\* output is [bs, seq_len, c] and position n holds table row rows[n].
word_emb(x, c) ==
  LET x3 == IF Len(x.shape) = 2 THEN tf_expand_dims_last(x) ELSE x
      in_shape == get_shape_list(x3)
      x_flat == tf_reshape(x3, <<Prod(in_shape)>>)
  IN  [stage |-> "word",
       shape |-> ButLast(in_shape) \o <<in_shape[Len(in_shape)] * c>>,
       rows |-> x_flat.flat, types |-> <<>>, pos |-> <<>>]

\* --------------------------------------------------- token_type_pos_emb
\* tf.slice(table, [begin, 0], [size, -1]) on a table of nrows rows: the
\* rows begin .. begin+size-1 (0-based).  Rows that do not all exist are an
\* error, raised by the call when the build checks shapes as the op is
\* made (at_call), and otherwise left to the run of the graph.
tf_slice_rows(nrows, begin, size, at_call) ==
  [raised |-> at_call /\ ~(0 <= begin /\ 0 <= size /\ begin + size <= nrows),
   rows |-> [k \in 1..size |-> begin + k - 1]]

\* lines 67-84: adds the token-type row of every position and the rows of
\* the position table the slice took, then looks up
\* layers.layer_norm_and_dropout.  `out` is the local x when the call ends.
token_type_pos_emb(x, tt_ids, max_seq_len, at_call) ==
  LET in_shape == get_shape_list(x)
      seq_len == in_shape[2]
      flat_token_type_ids == tf_reshape(tt_ids, <<Prod(tt_ids.shape)>>)
      typed == [x EXCEPT !.stage = "typed", !.types = flat_token_type_ids.flat]
      sl == tf_slice_rows(max_seq_len, 0, seq_len, at_call)
  IN  IF sl.raised
        THEN [raised |-> "ShapeError", out |-> typed]
        ELSE [raised |-> layers_getattr("layer_norm_and_dropout"),
              out |-> [typed EXCEPT !.stage = "summed", !.pos = sl.rows]]

\* ------------------------------------------------------------ transformer
\* core.reshape_to_matrix: [bs, seq_len, c] -> [bs * seq_len, c]
reshape_to_matrix(h) ==
  LET r == Len(h.shape)
  IN  Hidden(<<Prod(ButLast(h.shape)), h.shape[r]>>, h.hist)

\* core.reshape_from_matrix: [bs * seq_len, c] -> orig_shape[:-1] + [c]
reshape_from_matrix(h, orig_shape_list) ==
  Hidden(ButLast(orig_shape_list) \o <<h.shape[2]>>, h.hist)

\* line 22: for layer_idx in range(num_hidden_layers)
LoopContinues(idx, num_hidden_layers) == idx < num_hidden_layers

\* lines 48-49
transformer_result(return_all_layers, outputs, x, orig_shape) ==
  IF return_all_layers
    THEN [is_list |-> TRUE,
          items |-> [k \in 1..Len(outputs) |->
                       reshape_from_matrix(outputs[k], orig_shape)]]
    ELSE [is_list |-> FALSE, items |-> <<reshape_from_matrix(x, orig_shape)>>]

NoResult == [is_list |-> FALSE, items |-> <<>>]

\* The arguments of transformer besides x and attn_mask.
TransformerArgs(c, n_layers, n_heads, ff_c, hidden_drop, attn_drop, return_all) ==
  [c |-> c, num_hidden_layers |-> n_layers, n_heads |-> n_heads, ff_c |-> ff_c,
   hidden_dropout_prob |-> hidden_drop, attn_dropout_prob |-> attn_drop,
   return_all_layers |-> return_all]


\* ------------------------------------------------------------ BertModel
Fail(kind) == /\ pc' = "failed"
              /\ error' = kind

\* lines 116-128: private copy of the config, dropout off at inference,
\* defaults for the optional inputs.
BertModel_Enter ==
  /\ pc = "call"
  /\ LET cp == deepcopy(heap, CallerRef)
         shape == get_shape_list(input_ids)
     IN  /\ config' = cp.ref
         /\ heap' = IF ~is_training
                      THEN [cp.heap EXCEPT ![cp.ref].hidden_dropout_prob = 0,
                                           ![cp.ref].attention_probs_dropout_prob = 0]
                      ELSE cp.heap
         /\ batch_size' = shape[1]
         /\ seq_length' = shape[2]
         /\ input_mask' = input_mask_or_default(input_mask_arg, shape[1], shape[2])
         /\ token_type_ids' =
              token_type_ids_or_default(token_type_ids_arg, shape[1], shape[2])
  /\ pc' = "word_emb"
  /\ UNCHANGED <<config_at_call, is_training, input_ids, input_mask_arg,
                 token_type_ids_arg, embedding_output, attn_mask,
                 sequence_output, pooled_output, error, trace,
                 transVars, maskVars, asciiVars>>

\* lines 132-134
WordEmb ==
  /\ pc = "word_emb"
  /\ embedding_output' = word_emb(input_ids, heap[config].hidden_size)
  /\ trace' = Append(trace, Event("word_emb", 0, -1, -1))
  /\ pc' = "token_type_pos_emb"
  /\ UNCHANGED <<heap, config, config_at_call, is_training, input_ids,
                 input_mask_arg, token_type_ids_arg, input_mask, token_type_ids,
                 batch_size, seq_length, attn_mask, sequence_output,
                 pooled_output, error, transVars, maskVars, asciiVars>>

\* lines 136-140: the call raises (the slice, or the lookup of
\* layers.layer_norm_and_dropout at line 84), so self.embedding_output keeps
\* word_emb's output and lines 142-159 (create_attention_mask, transformer,
\* sequence_output, the pooler) are not reached.
TokenTypePosEmb ==
  /\ pc = "token_type_pos_emb"
  /\ \E at_call \in BOOLEAN :
       LET r == token_type_pos_emb(embedding_output, token_type_ids,
                                   heap[config].max_position_embeddings, at_call)
       IN  /\ r.raised # "none"
           /\ Fail(r.raised)
  /\ trace' = Append(trace, Event("token_type_pos_emb", 0,
                                  heap[config].hidden_dropout_prob, -1))
  /\ UNCHANGED <<heap, config, config_at_call, is_training, input_ids,
                 input_mask_arg, token_type_ids_arg, input_mask, token_type_ids,
                 batch_size, seq_length, embedding_output, attn_mask,
                 sequence_output, pooled_output, transVars, maskVars, asciiVars>>

\* ------------------------------------------------------------ transformer
\* lines 15-21
TransformerEnter ==
  /\ t_pc = "call"
  /\ input_shape' = get_shape_list(t_x)
  /\ x_2d' = reshape_to_matrix(t_x)
  /\ attn_c' = t_args.c \div t_args.n_heads
  /\ all_layer_outputs' = <<>>
  /\ layer_idx' = 0
  /\ t_pc' = "layer"
  /\ UNCHANGED <<t_x, t_mask, t_args, t_result, t_error, bertVars, maskVars,
                 asciiVars>>

\* lines 22-46: the first statement of the loop body looks up
\* layers.attention and raises; lines 30-46 are not reached.
TransformerLayer ==
  /\ t_pc = "layer"
  /\ LoopContinues(layer_idx, t_args.num_hidden_layers)
  /\ layers_getattr("attention") # "none"
  /\ t_error' = layers_getattr("attention")
  /\ t_pc' = "failed"
  /\ UNCHANGED <<t_x, t_mask, t_args, input_shape, attn_c, x_2d, layer_idx,
                 all_layer_outputs, t_result, bertVars, maskVars, asciiVars>>

\* lines 48-49
TransformerReturn ==
  /\ t_pc = "layer"
  /\ ~LoopContinues(layer_idx, t_args.num_hidden_layers)
  /\ t_result' = transformer_result(t_args.return_all_layers, all_layer_outputs,
                                    x_2d, input_shape)
  /\ t_pc' = "returned"
  /\ UNCHANGED <<t_x, t_mask, t_args, input_shape, attn_c, x_2d, layer_idx,
                 all_layer_outputs, t_error, bertVars, maskVars, asciiVars>>

\* ------------------------------------------------------------ other calls
CallCreateAttentionMask ==
  /\ m_pc = "call"
  /\ m_out' = create_attention_mask(m_src, m_dest_mask)
  /\ m_pc' = "returned"
  /\ UNCHANGED <<m_src, m_dest_mask, bertVars, transVars, asciiVars>>

CallCleanAscii ==
  /\ a_pc = "call"
  /\ a_out' = clean_ascii(a_x)
  /\ a_pc' = "returned"
  /\ UNCHANGED <<a_x, bertVars, transVars, maskVars>>

\* ------------------------------------------------------------ initial states
BertLocalsUnset ==
  /\ config = 0
  /\ input_mask = NoTensor /\ token_type_ids = NoTensor
  /\ batch_size = 0 /\ seq_length = 0 /\ embedding_output = NoEmbedding
  /\ attn_mask = NoTensor
  /\ sequence_output = NoHidden /\ pooled_output = NoHidden
  /\ error = "none" /\ trace = <<>>

BertIdle ==
  /\ pc = "idle" /\ heap = <<>>
  /\ config_at_call = BertConfig(0, 0, 0, 0, 0, 0, 0, 0, 0, 0)
  /\ is_training = FALSE /\ input_ids = NoTensor
  /\ input_mask_arg = Absent /\ token_type_ids_arg = Absent
  /\ BertLocalsUnset

TransLocalsUnset ==
  /\ input_shape = <<>> /\ attn_c = 0 /\ x_2d = NoHidden /\ layer_idx = 0
  /\ all_layer_outputs = <<>> /\ t_result = NoResult /\ t_error = "none"

TransIdle ==
  /\ t_pc = "idle" /\ t_x = NoHidden /\ t_mask = Absent
  /\ t_args = TransformerArgs(0, 0, 0, 0, 0, 0, FALSE)
  /\ TransLocalsUnset

MaskIdle == m_pc = "idle" /\ m_src = NoTensor /\ m_dest_mask = NoTensor
            /\ m_out = NoTensor

AsciiIdle == a_pc = "idle" /\ a_x = <<>> /\ a_out = <<>>

\* A BertModel(config, is_training, input_ids, input_mask, token_type_ids)
\* call about to start.
BertCall(cfg, training, ids, mask, tt) ==
  /\ pc = "call"
  /\ heap = [r \in {CallerRef} |-> cfg]
  /\ config_at_call = cfg
  /\ is_training = training
  /\ input_ids = ids
  /\ input_mask_arg = mask
  /\ token_type_ids_arg = tt
  /\ BertLocalsUnset

\* Every config and shape within the bounds, the optional inputs absent or
\* marking the last position of every row.
InitConfigs ==
  \E cfg \in Configs, training \in BOOLEAN, b \in BatchSizes, s \in 1..MaxSeq :
    \E ids \in {tf_zeros(<<b, s>>, "int32")},
       mask \in Optional({LastColumn(b, s, 0)}),
       tt \in Optional({LastColumn(b, s, 1)}) :
      BertCall(cfg, training, ids, mask, tt)

\* Every content of the input tensors within the bounds, under the
\* reference configs.
InitInputs ==
  \E cfg \in RefConfigs, training \in BOOLEAN, b \in BatchSizes, s \in 1..MaxSeq :
    \E ids \in {Tensor(<<b, s>>, [n \in 1..(b * s) |-> t], "int32") : t \in TokenIds},
       mask \in Optional(TensorsOf(<<b, s>>, MaskFlags)),
       tt \in Optional(TensorsOf(<<b, s>>, TypeIds)) :
      BertCall(cfg, training, ids, mask, tt)

Init == (InitConfigs \/ InitInputs) /\ TransIdle /\ MaskIdle /\ AsciiIdle

Next ==
  \/ BertModel_Enter
  \/ WordEmb
  \/ TokenTypePosEmb

Spec == Init /\ [][Next]_vars

\* transformer on its own: an activation [bs, seq_len, c], a mask built by
\* create_attention_mask or none, and every argument within the bounds.
TransInit ==
  /\ \E bs \in BatchSizes, seq_len \in 1..MaxSeq, c \in 1..MaxHidden :
       /\ t_x = Hidden(<<bs, seq_len, c>>, <<>>)
       /\ t_mask \in Optional({create_attention_mask(tf_zeros(<<bs, seq_len>>, "int32"), d) :
                                 d \in TensorsOf(<<bs, seq_len>>, MaskFlags)})
       /\ \E l \in 0..MaxLayers, n \in 1..MaxHeads, i \in IntermediateSizes,
             hd \in {0} \cup DropoutProbs, ad \in {0} \cup DropoutProbs,
             ra \in BOOLEAN :
            t_args = TransformerArgs(c, l, n, i, hd, ad, ra)
  /\ t_pc = "call"
  /\ TransLocalsUnset
  /\ BertIdle /\ MaskIdle /\ AsciiIdle

TransNext ==
  \/ TransformerEnter
  \/ TransformerLayer
  \/ TransformerReturn

SpecTransformer == TransInit /\ [][TransNext]_vars

\* create_attention_mask on its own: every source and destination mask
\* within the bounds.
MaskInit ==
  /\ \E bs \in BatchSizes, src_len \in 1..MaxSeq, dest_len \in 1..MaxSeq :
       /\ m_src \in TensorsOf(<<bs, src_len>>, TokenIds)
       /\ m_dest_mask \in TensorsOf(<<bs, dest_len>>, MaskFlags)
  /\ m_pc = "call" /\ m_out = NoTensor
  /\ BertIdle /\ TransIdle /\ AsciiIdle

MaskNext == CallCreateAttentionMask

SpecMask == MaskInit /\ [][MaskNext]_vars

\* clean_ascii on its own: every string within the bounds.
AsciiInit ==
  /\ a_x \in Strings(MaxStrLen)
  /\ a_pc = "call" /\ a_out = <<>>
  /\ BertIdle /\ TransIdle /\ MaskIdle

AsciiNext == CallCleanAscii

SpecAscii == AsciiInit /\ [][AsciiNext]_vars


\* ============================================================ properties
Iota(n) == [k \in 1..n |-> k - 1]
AllEntries(t, v) == \A n \in DOMAIN t.flat : t.flat[n] = v
Divisible(cfg) == cfg.hidden_size % cfg.num_attention_heads = 0
BatchOf == input_ids.shape[1]
SeqLenOf == input_ids.shape[2]
Entered == pc \notin {"idle", "call"}
Ended == pc \in {"done", "failed"}
FitsPositions == SeqLenOf <= config_at_call.max_position_embeddings
HasPhase(phase) == \E k \in DOMAIN trace : trace[k].phase = phase

\* C1: create_attention_mask(src, dest_mask) has shape [bs, src_len, dest_len],
\* its entry (b, i, j) is dest_mask[b][j] for every source position i (padding
\* or not), and it is the same for every content of src.
C1_MaskFollowsDestination ==
  m_pc = "returned" =>
    LET bs == m_src.shape[1]
        src_len == m_src.shape[2]
        dest_len == m_dest_mask.shape[2]
    IN  /\ m_out.shape = <<bs, src_len, dest_len>>
        /\ \A b \in 0..(bs - 1), i \in 0..(src_len - 1), j \in 0..(dest_len - 1) :
             At3(m_out, b, i, j) = At2(m_dest_mask, b, j)
        /\ \A other \in TensorsOf(m_src.shape, TokenIds) :
             create_attention_mask(other, m_dest_mask) = m_out

\* A padded source position (0) still attends to a valid destination (1).
C1_Witness ==
  /\ m_pc = "returned"
  /\ m_src.shape = <<1, 2>>
  /\ m_dest_mask.shape = <<1, 2>>
  /\ m_dest_mask.flat = <<0, 1>>
  /\ At3(m_out, 0, 0, 1) = 1
  /\ At3(m_out, 0, 1, 0) = 0

\* C2: a config whose hidden_size is not divisible by num_attention_heads
\* makes the construction fail with a ConfigError before any stage of the
\* pipeline runs.
C2_IndivisibleConfigRejected ==
  (Entered /\ ~Divisible(config_at_call)) =>
    /\ pc = "failed"
    /\ error = "ConfigError"
    /\ trace = <<>>

\* C3: once token_type_pos_emb has run, seq_len <= max_position_embeddings
\* (the boundary seq_len = max_position_embeddings included) succeeded with an
\* embedding output built from exactly the first seq_len rows of the position
\* table, and seq_len > max_position_embeddings failed with a shape error.
C3_PositionBoundary ==
  HasPhase("token_type_pos_emb") =>
    /\ FitsPositions =>
         /\ pc # "failed"
         /\ embedding_output.stage = "full"
         /\ embedding_output.pos = Iota(SeqLenOf)
    /\ ~FitsPositions =>
         /\ pc = "failed"
         /\ error = "ShapeError"
         /\ embedding_output.stage # "full"

\* A valid input under a valid config.
ValidCall ==
  /\ Entered
  /\ Divisible(config_at_call)
  /\ config_at_call.num_hidden_layers >= 1
  /\ FitsPositions

\* C4: for a valid input and a valid config the construction does not fail,
\* and completes with sequence_output of shape [batch, seq_len, hidden_size]
\* and pooled_output of shape [batch, hidden_size].
C4_OutputShapes ==
  ValidCall =>
    /\ pc # "failed"
    /\ pc = "done" =>
         /\ sequence_output.shape = <<BatchOf, SeqLenOf, config_at_call.hidden_size>>
         /\ pooled_output.shape = <<BatchOf, config_at_call.hidden_size>>

\* C6: an absent input_mask becomes all-ones [batch, seq_len] and an absent
\* token_type_ids all-zero [batch, seq_len], a supplied one is used as it is,
\* and a construction whose sequence fits the position table hands the
\* transformer the [batch, seq_len, seq_len] attention mask of that
\* input_mask (all-ones when it was absent).
C6_OptionalInputDefaults ==
  Entered =>
    /\ ~input_mask_arg.some =>
         /\ input_mask.shape = <<BatchOf, SeqLenOf>>
         /\ Len(input_mask.flat) = BatchOf * SeqLenOf
         /\ AllEntries(input_mask, 1)
    /\ input_mask_arg.some => input_mask = input_mask_arg.val
    /\ ~token_type_ids_arg.some =>
         /\ token_type_ids.shape = <<BatchOf, SeqLenOf>>
         /\ Len(token_type_ids.flat) = BatchOf * SeqLenOf
         /\ AllEntries(token_type_ids, 0)
    /\ token_type_ids_arg.some => token_type_ids = token_type_ids_arg.val
    /\ (Ended /\ FitsPositions) =>
         /\ attn_mask.shape = <<BatchOf, SeqLenOf, SeqLenOf>>
         /\ Len(attn_mask.flat) = BatchOf * SeqLenOf * SeqLenOf
         /\ ~input_mask_arg.some => AllEntries(attn_mask, 1)
         /\ input_mask_arg.some =>
              \A b \in 0..(BatchOf - 1), i \in 0..(SeqLenOf - 1),
                 j \in 0..(SeqLenOf - 1) :
                At3(attn_mask, b, i, j) = At2(input_mask_arg.val, b, j)

\* C7: the stages run in the order word_emb, token_type_pos_emb,
\* create_attention_mask, layer 0 .. layer num_hidden_layers-1, pooler, none
\* skipped, repeated or reordered: what has run is always a beginning of that
\* order, and a construction whose sequence fits the position table has run
\* all of it when it ends.
CanonicalOrder(n) ==
  <<  <<"word_emb", 0>>, <<"token_type_pos_emb", 0>>,
      <<"create_attention_mask", 0>>  >>
  \o [k \in 1..n |-> <<"layer", k - 1>>]
  \o << <<"pooler", 0>> >>

Phases == [k \in 1..Len(trace) |-> <<trace[k].phase, trace[k].idx>>]

C7_StageOrder ==
  Entered =>
    LET canon == CanonicalOrder(config_at_call.num_hidden_layers)
    IN  /\ Len(trace) <= Len(canon)
        /\ Phases = SubSeq(canon, 1, Len(trace))
        /\ (Ended /\ FitsPositions) => Phases = canon

\* C8: a call of transformer ends by returning; layer 0 read the flattened
\* input and layer k the output of layer k-1; with return_all_layers the
\* result is the num_hidden_layers layer outputs in layer order, each of the
\* input's shape [bs, seq_len, c], and without it only the last one.
C8_LayerThreading ==
  /\ \A k \in DOMAIN all_layer_outputs : all_layer_outputs[k].hist = Iota(k)
  /\ t_pc \in {"returned", "failed"} =>
       LET n == t_args.num_hidden_layers
       IN  /\ t_pc = "returned"
           /\ t_args.return_all_layers =>
                /\ t_result.is_list
                /\ Len(t_result.items) = n
                /\ \A k \in 1..n : t_result.items[k] = Hidden(t_x.shape, Iota(k))
           /\ ~t_args.return_all_layers =>
                /\ ~t_result.is_list
                /\ t_result.items = <<Hidden(t_x.shape, Iota(n))>>

\* C9: clean_ascii(x) is exactly the code points of x that are ASCII
\* (<= 127), in their order.
C9_OnlyAsciiKept ==
  a_pc = "returned" => a_out = SelectSeq(a_x, LAMBDA c : c <= 127)

\* C10: the caller's config keeps every field through the construction,
\* training or not; at inference the private copy has both dropout
\* probabilities 0 and every stage that runs gets dropout 0; in training the
\* copy equals the caller's config and every stage gets its probabilities.
C10_CallerConfigUntouched ==
  Entered =>
    /\ heap[CallerRef] = config_at_call
    /\ config # CallerRef
    /\ \A f \in DOMAIN config_at_call \ {"hidden_dropout_prob",
                                         "attention_probs_dropout_prob"} :
         heap[config][f] = config_at_call[f]
    /\ ~is_training =>
         /\ heap[config].hidden_dropout_prob = 0
         /\ heap[config].attention_probs_dropout_prob = 0
         /\ \A k \in DOMAIN trace : /\ trace[k].hdrop \in {-1, 0}
                                    /\ trace[k].adrop \in {-1, 0}
    /\ is_training =>
         /\ heap[config] = config_at_call
         /\ \A k \in DOMAIN trace :
              /\ trace[k].hdrop \in {-1, config_at_call.hidden_dropout_prob}
              /\ trace[k].adrop \in {-1, config_at_call.attention_probs_dropout_prob}

\* An inference-mode construction has ended, its embedding stage ran with
\* dropout 0, and the caller's config still asks for dropout.
C10_Witness ==
  /\ ~is_training
  /\ Ended
  /\ heap[CallerRef].hidden_dropout_prob = 1
  /\ heap[CallerRef].attention_probs_dropout_prob = 2
  /\ heap[config].hidden_dropout_prob = 0
  /\ \E k \in DOMAIN trace :
       trace[k].phase = "token_type_pos_emb" /\ trace[k].hdrop = 0

====
